---- MODULE Spec2Model ----
(***************************************************************************)
(* Recommendation pipeline of recsys-project: the batch runner             *)
(* (recsys/generate_recommendations.py), the two generation engines        *)
(* (recsys/random_model.py, recsys/item_similarity.py) and the retrieval   *)
(* endpoint (api/main.py), over one SQLite database file.                  *)
(*                                                                         *)
(* The database is modelled at the level SQLite guarantees: `store` is the *)
(* committed content of the recommendations table in rowid order, `tx` is  *)
(* the private view of the runner's open transaction.  Other connections   *)
(* read `store` only.                                                      *)
(***************************************************************************)
EXTENDS Integers, Sequences, FiniteSets, TLC

\* ---------------------------------------------------------------- bounds
MaxTime   == 1      \* CURRENT_TIMESTAMP takes the values 0..MaxTime
MaxModels == 2      \* longest list of model names given to run_models
MaxTopN   == 2      \* largest top_n given to run_models
MaxLimit  == 2      \* largest limit given to list_recommendations
MaxScore  == 2      \* similarity scores are scaled to 0..MaxScore
MaxDraws  == 4      \* outputs of a seeded generator before its stream repeats

None == "None"

\* ------------------------------------------------------------ environment
\* ids of the rows of the users / items tables built by data/create_db.py
DbUsers == {1}
DbItems == {1, 2}
\* the UserID column of users.csv and the Item column of items.csv the
\* database was loaded from
Catalogue == [user_ids |-> <<1>>, item_ids |-> <<1, 2>>]
\* the same columns as a generation run may find them once the files have
\* been edited
DataSets == {Catalogue, [user_ids |-> <<1>>, item_ids |-> <<1>>]}
\* ids a client may ask for (3 is in no table)
RequestIds == {1, 2, 3}
\* similarity matrices the embedding provider may lead to for n items (the
\* scores scaled to integers)
SimMatrices(n) ==
    IF n = 1 THEN {<<<<2>>>>}
    ELSE {<<<<2, 1>>, <<1, 2>>>>, <<<<2, 0>>, <<0, 2>>>>}
CsvNames == {"users.csv", "items.csv"}
\* identifier pools handed to the random engine on its own (unique ids)
RandomUserPools == {<<1>>, <<2, 1>>}
RandomItemPools == {<<1>>, <<1, 2>>, <<1, 2, 3>>}
\* the seeds given with --seed; a seed is <<v>>, <<>> is None (no seed)
NoSeed == <<>>
Seeds == {<<7>>}
\* what a seeded generator may put out: one bit per draw
Streams == [1..MaxDraws -> 0..1]
\* item id sequences handed to _top_n_similar on its own (unique ids, in
\* and out of order)
SimilarityPools == {<<1>>, <<1, 2>>, <<1, 2, 3>>, <<3, 1, 2>>}
\* the products embeddings @ embeddings.T may be for n items: symmetric,
\* the diagonal not always the largest entry of its row (rounding, zero
\* vectors)
ScoreMatrices(n) ==
    {m \in [1..n -> [1..n -> 0..MaxScore]] : \A i, j \in 1..n : m[i][j] = m[j][i]}

\* ---------------------------------------------------------------- helpers
Min(a, b) == IF a <= b THEN a ELSE b

\* all orderings of the finite set S
Perms(S) ==
    {p \in [1..Cardinality(S) -> S] : \A i, j \in 1..Cardinality(S) : p[i] = p[j] => i = j}

\* Python's s[:n] for n >= 0
Prefix(s, n) == SubSeq(s, 1, Min(n, Len(s)))

\* f"user_id#{id}" / f"item_id#{id}"
TargetKey(prefix, id) == <<prefix, id>>

\* ---------------------------------------------------- items (de)serialising
\* The JSON text of an item list is kept as its sequence of tokens.
Punct(c) == [kind |-> c, value |-> 0]
Num(n) == [kind |-> "num", value |-> n]
Chr(c) == [kind |-> "chr", value |-> c]

\* ", ".join of the elements, as json.dumps writes them
RECURSIVE JoinItems(_)
JoinItems(items) ==
    IF Len(items) = 0 THEN <<>>
    ELSE IF Len(items) = 1 THEN <<Num(items[1])>>
    ELSE <<Num(items[1]), Punct(",")>> \o JoinItems(Tail(items))

\* json.dumps(list(items)) for a list of integers
_serialize_items(items) == <<Punct("[")>> \o JoinItems(items) \o <<Punct("]")>>

\* the elements of a comma separated token sequence; ok = FALSE for a
\* malformed one
RECURSIVE SplitItems(_)
SplitItems(body) ==
    IF Len(body) = 0 THEN [ok |-> FALSE, value |-> <<>>]
    ELSE IF body[1].kind # "num" THEN [ok |-> FALSE, value |-> <<>>]
    ELSE IF Len(body) = 1 THEN [ok |-> TRUE, value |-> <<body[1].value>>]
    ELSE IF body[2].kind # "," THEN [ok |-> FALSE, value |-> <<>>]
    ELSE LET rest == SplitItems(SubSeq(body, 3, Len(body)))
         IN  IF rest.ok
             THEN [ok |-> TRUE, value |-> <<body[1].value>> \o rest.value]
             ELSE rest

\* json.loads(text): ok = FALSE stands for json.JSONDecodeError.  A text
\* that is one JSON value of another type parses too: a lone number ("int",
\* value <<n>>) or a quoted string ("str", value its characters).
json_loads(text) ==
    IF Len(text) = 1 /\ text[1].kind = "num"
    THEN [ok |-> TRUE, type |-> "int", value |-> <<text[1].value>>]
    ELSE IF Len(text) < 2
    THEN [ok |-> FALSE, type |-> None, value |-> <<>>]
    ELSE LET body == SubSeq(text, 2, Len(text) - 1)
         IN  IF text[1].kind = "quote" /\ text[Len(text)].kind = "quote"
                /\ \A i \in 1..Len(body) : body[i].kind = "chr"
             THEN [ok |-> TRUE, type |-> "str",
                   value |-> [i \in 1..Len(body) |-> body[i].value]]
             ELSE IF text[1].kind # "[" \/ text[Len(text)].kind # "]"
             THEN [ok |-> FALSE, type |-> None, value |-> <<>>]
             ELSE IF Len(body) = 0 THEN [ok |-> TRUE, type |-> "list", value |-> <<>>]
             ELSE [ok |-> SplitItems(body).ok,
                   type |-> IF SplitItems(body).ok THEN "list" ELSE None,
                   value |-> SplitItems(body).value]

\* ------------------------------------------------------ generation engines
\* what a generation function hands back: a mapping (the entries of the dict
\* in insertion order) or the exception it raised
GenOk(recs) == [ok |-> TRUE, error |-> None, recs |-> recs]
GenError(kind) == [ok |-> FALSE, error |-> kind, recs |-> <<>>]

\* faulty variant: rng.choices, a sample with replacement
SampleWithReplacement(population, k) == [1..k -> {population[i] : i \in 1..Len(population)}]

\* random.Random.sample(population, k): k distinct positions of the
\* population, in the order drawn
Sample(population, k) ==
    {[i \in 1..k |-> population[p[i]]] :
        p \in {q \in [1..k -> 1..Len(population)] :
                 \A i, j \in 1..k : q[i] = q[j] => i = j}}

\* all ways to pick one element of choices[i] for every i
PickEach(choices) ==
    {f \in [DOMAIN choices -> UNION {choices[i] : i \in DOMAIN choices}] :
        \A i \in DOMAIN choices : f[i] \in choices[i]}

\* faulty variant: the items are sampled from the whole pool
recommendFromWholePool(user_ids, item_ids, top_n) ==
    IF top_n < 1 THEN {GenError("InvalidRequest")}
    ELSE
    LET n_items == Len(item_ids)
        limit == Min(top_n, n_items)
        nu == Len(user_ids)
        forUsers == [i \in 1..nu |-> Sample(item_ids, limit)]
        forItems == [i \in 1..n_items |-> Sample(item_ids, limit)]
    IN  {GenOk([i \in 1..(nu + n_items) |->
                  IF i <= nu
                  THEN [target_key |-> TargetKey("user_id#", user_ids[i]),
                        items |-> u[i]]
                  ELSE [target_key |-> TargetKey("item_id#", item_ids[i - nu]),
                        items |-> g[i - nu]]]) :
            u \in PickEach(forUsers), g \in PickEach(forItems)}

\* RandomRecommender.recommend: the mappings it may return
recommend(user_ids, item_ids, top_n) ==
    IF top_n < 1 THEN {GenError("InvalidRequest")}
    ELSE
    LET n_items == Len(item_ids)
        limit == Min(top_n, n_items)
        nu == Len(user_ids)
        candidates(item_id) == SelectSeq(item_ids, LAMBDA c : c # item_id)
        forUsers == [i \in 1..nu |-> Sample(item_ids, limit)]
        forItems == [i \in 1..n_items |->
                        IF n_items = 1 THEN {<<>>}
                        ELSE LET size == Min(top_n, Len(candidates(item_ids[i])))
                             IN  IF size = 0 THEN {<<>>}
                                 ELSE Sample(candidates(item_ids[i]), size)]
    IN  {GenOk([i \in 1..(nu + n_items) |->
                  IF i <= nu
                  THEN [target_key |-> TargetKey("user_id#", user_ids[i]),
                        items |-> u[i]]
                  ELSE [target_key |-> TargetKey("item_id#", item_ids[i - nu]),
                        items |-> g[i - nu]]]) :
            u \in PickEach(forUsers), g \in PickEach(forItems)}

\* the output of a generator at position pos of its stream; the stream
\* repeats after its period
Draw(draws, pos) == draws[((pos - 1) % Len(draws)) + 1]

\* rng.sample(population, k) on the generator standing at position pos:
\* draw j below the number of elements left, take pool[j], move the last
\* element into its place
RECURSIVE SampleAt(_, _, _, _)
SampleAt(pool, k, draws, pos) ==
    IF k = 0 THEN <<>>
    ELSE LET n == Len(pool)
             j == (Draw(draws, pos) % n) + 1
             left == [i \in 1..(n - 1) |-> IF i = j THEN pool[n] ELSE pool[i]]
         IN  <<pool[j]>> \o SampleAt(left, k - 1, draws, pos + 1)

\* the second loop of recommend from the item at position idx on, the
\* generator standing at pos
RECURSIVE ItemSamplesAt(_, _, _, _, _)
ItemSamplesAt(item_ids, top_n, draws, pos, idx) ==
    IF idx > Len(item_ids) THEN <<>>
    ELSE LET candidates == SelectSeq(item_ids, LAMBDA c : c # item_ids[idx])
             size == IF Len(item_ids) = 1 THEN 0 ELSE Min(top_n, Len(candidates))
         IN  <<[target_key |-> TargetKey("item_id#", item_ids[idx]),
                items |-> SampleAt(candidates, size, draws, pos)]>>
                 \o ItemSamplesAt(item_ids, top_n, draws, pos + size, idx + 1)

\* RandomRecommender.recommend on a generator that puts out draws: the one
\* mapping it returns
RecommendOn(user_ids, item_ids, top_n, draws) ==
    IF top_n < 1 THEN GenError("InvalidRequest")
    ELSE
    LET limit == Min(top_n, Len(item_ids))
        nu == Len(user_ids)
    IN  GenOk([i \in 1..nu |->
                  [target_key |-> TargetKey("user_id#", user_ids[i]),
                   items |-> SampleAt(item_ids, limit, draws, (i - 1) * limit + 1)]]
              \o ItemSamplesAt(item_ids, top_n, draws, nu * limit + 1, 1))

\* faulty variant: the seed does not reach the generator
RandomSeedDropped(seed, draws, entropy) == entropy

\* random.Random(seed): the stream of the generator; seeded from the
\* operating system when seed is None
RandomSeed(seed, draws, entropy) == IF seed = NoSeed THEN entropy ELSE draws

\* generate_random_recommendations: RandomRecommender.from_data, then
\* recommend.  A missing directory or file is a FileNotFoundError.  draws
\* is what the generator puts out for this seed; without a seed any sample
\* may come.
generate_random_recommendations(top_n, seed, draws, dirExists, csv, data) ==
    IF ~dirExists THEN {GenError("MissingPrerequisite")}
    ELSE IF "users.csv" \notin csv THEN {GenError("MissingPrerequisite")}
    ELSE IF "items.csv" \notin csv THEN {GenError("MissingPrerequisite")}
    ELSE IF RandomSeed(seed, draws, <<>>) = <<>>
         THEN recommend(data.user_ids, data.item_ids, top_n)
         ELSE {RecommendOn(data.user_ids, data.item_ids, top_n,
                           RandomSeed(seed, draws, <<>>))}

\* np.argpartition(scores, -k)[-k:]: some k positions holding the k largest
\* scores; equal scores may fall on either side
ArgPartitionTop(scores, k) ==
    {C \in SUBSET (1..Len(scores)) :
        /\ Cardinality(C) = k
        /\ \A i \in C, j \in (1..Len(scores)) \ C : scores[i] >= scores[j]}

\* faulty variant: the [::-1] is missing
SortedCandidatesAscending(scores, C) ==
    {p \in Perms(C) : \A i, j \in 1..Cardinality(C) : i < j => scores[p[i]] <= scores[p[j]]}

\* candidate_indices[np.argsort(scores[candidate_indices])[::-1]]: the
\* candidates by descending score, equal scores in any order
SortedCandidates(scores, C) ==
    {p \in Perms(C) : \A i, j \in 1..Cardinality(C) : i < j => scores[p[i]] >= scores[p[j]]}

\* faulty variant: the row's own item is not skipped
AcceptCandidatesKeepSelf(shortlist, item_ids, item_id, top_n) ==
    Prefix([i \in 1..Len(shortlist) |-> item_ids[shortlist[i]]], top_n)

\* the accepting loop of _top_n_similar over one shortlist
AcceptCandidates(shortlist, item_ids, item_id, top_n) ==
    Prefix(SelectSeq([i \in 1..Len(shortlist) |-> item_ids[shortlist[i]]],
                     LAMBDA c : c # item_id),
           top_n)

\* the lists _top_n_similar may build for the item at position idx
SimilarItems(similarity_matrix, item_ids, top_n, idx) ==
    IF Len(item_ids) <= 1 THEN {<<>>}
    ELSE LET scores == similarity_matrix[idx]
             candidate_count == Min(top_n + 1, Len(item_ids))
         IN  {AcceptCandidates(s, item_ids, item_ids[idx], top_n) :
                s \in UNION {SortedCandidates(scores, C) :
                               C \in ArgPartitionTop(scores, candidate_count)}}

_top_n_similar(similarity_matrix, item_ids, top_n) ==
    LET lists == [idx \in 1..Len(item_ids) |->
                    SimilarItems(similarity_matrix, item_ids, top_n, idx)]
    IN  {GenOk([idx \in 1..Len(item_ids) |->
                  [target_key |-> TargetKey("item_id#", item_ids[idx]),
                   items |-> g[idx]]]) :
            g \in PickEach(lists)}

\* generate_item_similarity_recommendations; the embeddings, and so the
\* similarity matrix, are whatever the embedding provider yields
generate_item_similarity_recommendations(top_n, seed, dirExists, csv, data) ==
    IF top_n < 1 THEN {GenError("InvalidRequest")}
    ELSE IF ~dirExists THEN {GenError("MissingPrerequisite")}
    ELSE IF "items.csv" \notin csv THEN {GenError("MissingPrerequisite")}
    ELSE UNION {_top_n_similar(m, data.item_ids, top_n) :
                  m \in SimMatrices(Len(data.item_ids))}

\* MODEL_REGISTRY and the runner of each entry
MODEL_REGISTRY == {"random", "item_similarity"}

Runner(model_name, top_n, seed, draws, dirExists, csv, data) ==
    IF model_name = "random"
    THEN generate_random_recommendations(top_n, seed, draws, dirExists, csv, data)
    ELSE generate_item_similarity_recommendations(top_n, seed, dirExists, csv, data)

\* ------------------------------------------------------ recommendation store
\* One row of the recommendations table (the id column is the position of
\* the row in the table).
Row(target_key, model, items, generated_at) ==
    [target_key |-> target_key, model |-> model, items |-> items,
     generated_at |-> generated_at]

\* positions of the rows the ON CONFLICT(target_key, model) clause matches
Conflicts(table, target_key, model) ==
    {i \in 1..Len(table) : table[i].target_key = target_key /\ table[i].model = model}

\* faulty variant: a plain INSERT into a table without the UNIQUE constraint
UpsertAlwaysInserts(table, target_key, model, items, ts) ==
    Append(table, Row(target_key, model, items, ts))

\* faulty variant: the conflict target is target_key alone
UpsertByTargetKey(table, target_key, model, items, ts) ==
    IF \A i \in 1..Len(table) : table[i].target_key # target_key
    THEN Append(table, Row(target_key, model, items, ts))
    ELSE [i \in 1..Len(table) |->
            IF table[i].target_key = target_key
            THEN [table[i] EXCEPT !.items = items, !.generated_at = ts]
            ELSE table[i]]

\* INSERT ... ON CONFLICT(target_key, model) DO UPDATE SET items =
\* excluded.items, generated_at = CURRENT_TIMESTAMP, for one row
Upsert(table, target_key, model, items, ts) ==
    IF Conflicts(table, target_key, model) = {}
    THEN Append(table, Row(target_key, model, items, ts))
    ELSE [i \in 1..Len(table) |->
            IF i \in Conflicts(table, target_key, model)
            THEN Row(target_key, model, items, ts)
            ELSE table[i]]

\* conn.executemany: the statement once per row, in order
RECURSIVE ExecuteMany(_, _, _)
ExecuteMany(table, rows, ts) ==
    IF Len(rows) = 0 THEN table
    ELSE ExecuteMany(Upsert(table, rows[1].target_key, rows[1].model, rows[1].items, ts),
                     Tail(rows), ts)

\* the rows _persist_recommendations builds from one model's mapping
PersistRows(model_name, recommendations) ==
    [i \in 1..Len(recommendations) |->
        [target_key |-> recommendations[i].target_key,
         model |-> model_name,
         items |-> _serialize_items(recommendations[i].items)]]

\* faulty variant: the model's rows are deleted before the new ones go in
_persist_recommendations_replacing(table, model_name, recommendations, ts) ==
    ExecuteMany(SelectSeq(table, LAMBDA r : r.model # model_name),
                PersistRows(model_name, recommendations), ts)

\* _persist_recommendations: the table of the open transaction afterwards
_persist_recommendations(table, model_name, recommendations, ts) ==
    IF Len(recommendations) = 0 THEN table
    ELSE ExecuteMany(table, PersistRows(model_name, recommendations), ts)

\* results[model_name] = count on a dict kept in insertion order
DictSet(d, k, v) ==
    IF \E i \in 1..Len(d) : d[i].key = k
    THEN [i \in 1..Len(d) |-> IF d[i].key = k THEN [key |-> k, value |-> v] ELSE d[i]]
    ELSE Append(d, [key |-> k, value |-> v])

\* faulty variant: the check is skipped
_ensure_database_skipped(dbFile) == TRUE

\* _ensure_database: TRUE when db_path.exists()
_ensure_database(dbFile) == dbFile # "absent"

\* sqlite3.connect creates an absent database file, with no table in it
Connect(dbFile) == IF dbFile = "absent" THEN "empty" ELSE dbFile

\* faulty variant: every statement is committed as it runs (autocommit)
StoreAfterWriteAutocommit(committed, working) == working

\* What other connections can read after a statement of the runner's open
\* transaction: nothing of it, the implicit transaction stays open until
\* conn.commit().
StoreAfterWrite(committed, working) == committed

\* conn.commit() at the end of the with block
Commit(committed, working) == working

\* faulty variant: the writes made so far are kept when the block fails
RollbackKeepsWrites(committed, working) == working

\* the with block left by an exception: conn.rollback()
Rollback(committed, working) == committed

\* ------------------------------------------------------------- retrieval
\* an optional query parameter: <<>> is None, <<v>> is the value v
Given(opt) == opt # <<>>
Val(opt) == opt[1]

\* _ensure_exists: "ok", the 404 it raises, or the sqlite3.OperationalError
\* of a database without the entity tables
_ensure_exists(dbFile, ids, entity_id) ==
    IF dbFile # "built" THEN "OperationalError"
    ELSE IF entity_id \notin ids THEN "NotFound"
    ELSE "ok"

\* position of a model name under SQLite's BINARY collation
ModelRank(m) == IF m = "item_similarity" THEN 1 ELSE 2

\* faulty variant: no ORDER BY, the rows come in rowid order
OrderByRowid(rows) == rows

\* ORDER BY model
OrderByModel(rows) ==
    SelectSeq(rows, LAMBDA r : ModelRank(r.model) = 1)
        \o SelectSeq(rows, LAMBDA r : ModelRank(r.model) = 2)

\* SELECT model, items, generated_at FROM recommendations WHERE
\* target_key = ? [AND model = ?] ORDER BY model
SelectRecommendations(table, target_key, model) ==
    OrderByModel(SelectSeq(table,
        LAMBDA r : r.target_key = target_key /\ (model = None \/ r.model = model)))

\* faulty variant: the limit is not applied
TruncateNothing(items, limit) == items

\* items[:limit], of a list and likewise of a str (kept as its characters)
Truncate(items, limit) == Prefix(items, limit)

\* an HTTPException (or an unhandled exception): no part of the request is
\* echoed.  queried tells whether the recommendations table had been read.
ErrorResponse(status, error, queried) ==
    [status |-> status, error |-> error, target_key |-> <<>>, model |-> None,
     limit |-> 0, recommendations |-> <<>>, queried |-> queried]

\* the part of list_recommendations after the target is resolved
FetchRecommendations(table, tableExists, target_key, model, limit) ==
    IF ~tableExists THEN ErrorResponse(500, "OperationalError", TRUE)
    ELSE LET rows == SelectRecommendations(table, target_key, model)
             \* the rows the loop cannot turn into an entry: json.loads
             \* raises, or items[:limit] raises TypeError on a number
             bad == {i \in 1..Len(rows) :
                       \/ ~json_loads(rows[i].items).ok
                       \/ json_loads(rows[i].items).type = "int"}
             first == CHOOSE i \in bad : \A j \in bad : i <= j
         IN  IF Len(rows) = 0 THEN ErrorResponse(404, "NoRecommendations", TRUE)
             ELSE IF bad # {}
             THEN IF json_loads(rows[first].items).ok
                  THEN ErrorResponse(500, "InternalServerError", TRUE)
                  ELSE ErrorResponse(500, "CorruptedStorage", TRUE)
             ELSE [status |-> 200, error |-> None, target_key |-> target_key,
                   model |-> model, limit |-> limit,
                   recommendations |->
                       [i \in 1..Len(rows) |->
                           [model |-> rows[i].model,
                            items |-> Truncate(json_loads(rows[i].items).value, limit),
                            generated_at |-> rows[i].generated_at]],
                   queried |-> TRUE]

\* which of the two ids list_recommendations resolves: "none" is the 400
ResolveTarget(user_id, item_id) ==
    IF ~Given(user_id) /\ ~Given(item_id) THEN "none"
    ELSE IF Given(user_id) THEN "user"
    ELSE "item"

\* the response of list_recommendations against the committed table
Respond(table, tableExists, dbFile, user_id, item_id, model, limit) ==
    LET target == ResolveTarget(user_id, item_id)
        found == IF target = "user"
                 THEN _ensure_exists(dbFile, DbUsers, Val(user_id))
                 ELSE _ensure_exists(dbFile, DbItems, Val(item_id))
        target_key == IF target = "user"
                      THEN TargetKey("user_id#", Val(user_id))
                      ELSE TargetKey("item_id#", Val(item_id))
    IN  IF target = "none" THEN ErrorResponse(400, "InvalidRequest", FALSE)
        ELSE IF found = "OperationalError" THEN ErrorResponse(500, "OperationalError", FALSE)
        ELSE IF found = "NotFound" THEN ErrorResponse(404, "NotFound", FALSE)
        ELSE FetchRecommendations(table, tableExists, target_key, model, limit)

\* ------------------------------------------------------------------ state
VARIABLES
    dbFile,       \* "absent", "empty" (a file without tables) or "built" by create_db.py
    dataDir,      \* TRUE when the data directory exists
    csv,          \* the CSV files present in the data directory
    tableExists,  \* the recommendations table has been created
    store,        \* committed rows of the recommendations table, in rowid order
    now,          \* CURRENT_TIMESTAMP
    pc,           \* "idle" or "running": run_models is inside its with block
    models,       \* the names the loop has taken from the models iterable so far
    top_n,        \* its top_n
    tx,           \* the table as the open transaction sees it
    results,      \* the results dict
    batch,        \* rows handed to the latest executemany of this invocation
    wrote,        \* TRUE once this invocation has written a row
    genCalls,     \* generation functions invoked by this invocation
    genDone,      \* generation functions that returned a mapping
    pre,          \* committed rows when this invocation was started
    outcome,      \* how the latest invocation ended
    response,     \* the response of list_recommendations on its way to the client
    seed,         \* the seed given to the running invocation
    twister,      \* what the generator seeded with the seed in use puts out
    args,         \* the arguments of a generation engine called on its own
    returned      \* what its calls have returned so far, in order

envVars == <<dataDir, csv, twister>>
runVars == <<pc, models, top_n, tx, results, batch, wrote, genCalls, genDone, pre, seed>>
engineVars == <<args, returned>>
vars == <<dbFile, dataDir, csv, tableExists, store, now, pc, models, top_n,
          tx, results, batch, wrote, genCalls, genDone, pre, outcome, response,
          seed, twister, args, returned>>

ModelNames == MODEL_REGISTRY \cup {"bogus"}
TopNs == 1..MaxTopN
OptionalIds == {<<>>} \cup {<<id>> : id \in RequestIds}
ModelFilters == {None} \cup MODEL_REGISTRY
Limits == 1..MaxLimit

\* the installations the runs start from: database built and data complete,
\* users.csv missing, data directory missing, database never built
Deployments ==
    {[dbFile |-> "built", dataDir |-> TRUE, csv |-> CsvNames],
     [dbFile |-> "built", dataDir |-> TRUE, csv |-> {"items.csv"}],
     [dbFile |-> "built", dataDir |-> FALSE, csv |-> {}],
     [dbFile |-> "absent", dataDir |-> TRUE, csv |-> {}]}

NoOutcome == [status |-> None, wrote |-> FALSE]
NoResponse == ErrorResponse(0, None, FALSE)

\* nothing has run yet: no recommendations table, no invocation, no request
Fresh ==
    /\ tableExists = FALSE
    /\ store = <<>>

\* no invocation of run_models and no request is under way
Idle ==
    /\ now = 0
    /\ pc = "idle"
    /\ models = <<>>
    /\ top_n = 0
    /\ tx = <<>>
    /\ results = <<>>
    /\ batch = <<>>
    /\ wrote = FALSE
    /\ genCalls = 0
    /\ genDone = 0
    /\ pre = <<>>
    /\ outcome = NoOutcome
    /\ response = NoResponse
    /\ seed = NoSeed

\* no generation engine is called on its own
NoEngineCall ==
    /\ args = <<>>
    /\ returned = <<>>

Init ==
    /\ \E d \in Deployments :
         /\ dbFile = d.dbFile
         /\ dataDir = d.dataDir
         /\ csv = d.csv
    /\ twister = <<>>
    /\ Fresh
    /\ Idle
    /\ NoEngineCall

\* The handler's return is the delivery of its response: a response is kept
\* for one state and handed over before the next step of anyone.
Delivered == response = NoResponse

\* ---------------------------------------------------------------- run_models
\* the invocation is over: its locals are gone
Return(status) ==
    /\ pc' = "idle"
    /\ models' = <<>>
    /\ top_n' = 0
    /\ tx' = <<>>
    /\ results' = <<>>
    /\ batch' = <<>>
    /\ wrote' = FALSE
    /\ genCalls' = 0
    /\ genDone' = 0
    /\ pre' = <<>>
    /\ seed' = NoSeed
    /\ outcome' = [status |-> status, wrote |-> wrote]

\* an exception leaves the with block: rollback, then the error propagates
Raise(status) ==
    /\ store' = Rollback(store, tx)
    /\ Return(status)

\* run_models up to the loop: the two existence checks, the connection and
\* CREATE TABLE IF NOT EXISTS (which SQLite runs outside any transaction)
RunModelsBegin(tn, sd) ==
    /\ Delivered
    /\ pc = "idle"
    /\ IF ~_ensure_database(dbFile) \/ ~dataDir
       THEN /\ store' = store
            /\ Return("MissingPrerequisite")
            /\ UNCHANGED <<dbFile, tableExists>>
       ELSE /\ dbFile' = Connect(dbFile)
            /\ tableExists' = TRUE
            /\ pc' = "running"
            /\ models' = <<>>
            /\ top_n' = tn
            /\ seed' = sd
            /\ tx' = store
            /\ pre' = store
            /\ results' = <<>>
            /\ batch' = <<>>
            /\ wrote' = FALSE
            /\ genCalls' = 0
            /\ genDone' = 0
            /\ outcome' = NoOutcome
            /\ store' = store
    /\ UNCHANGED <<envVars, now, response, engineVars>>

\* one turn of the loop, the iterable yielding model_name: registry lookup,
\* generation, persistence
RunModelsStep(model_name, data) ==
    /\ Delivered
    /\ pc = "running"
    /\ Len(models) < MaxModels
    /\ IF model_name \notin MODEL_REGISTRY
       THEN Raise("UnknownModel")
       ELSE \E gen \in Runner(model_name, top_n, seed, twister, dataDir, csv, data) :
              IF ~gen.ok
              THEN Raise(gen.error)
              ELSE \/ \* executemany raises sqlite3.Error
                      Raise("PersistenceError")
                   \/ /\ tx' = _persist_recommendations(tx, model_name, gen.recs, now)
                      /\ store' = StoreAfterWrite(store, tx')
                      /\ results' = DictSet(results, model_name, Len(gen.recs))
                      /\ batch' = PersistRows(model_name, gen.recs)
                      /\ wrote' = (wrote \/ Len(gen.recs) > 0)
                      /\ genCalls' = genCalls + 1
                      /\ genDone' = genDone + 1
                      /\ models' = Append(models, model_name)
                      /\ UNCHANGED <<pc, top_n, pre, outcome, seed>>
    /\ UNCHANGED <<dbFile, envVars, tableExists, now, response, engineVars>>

\* the iterable is exhausted: conn.commit() and return results
RunModelsCommit ==
    /\ Delivered
    /\ pc = "running"
    /\ store' = Commit(store, tx)
    /\ Return("ok")
    /\ UNCHANGED <<dbFile, envVars, tableExists, now, response, engineVars>>

\* ------------------------------------------------------ list_recommendations
\* One request, served on its own connection.
list_recommendations(user_id, item_id, model, limit) ==
    /\ Delivered
    /\ dbFile' = Connect(dbFile)
    /\ response' = Respond(store, tableExists, Connect(dbFile), user_id, item_id,
                           model, limit)
    /\ UNCHANGED <<envVars, tableExists, store, now, runVars, outcome, engineVars>>

\* the response reaches the client
Deliver ==
    /\ response # NoResponse
    /\ response' = NoResponse
    /\ UNCHANGED <<dbFile, envVars, tableExists, store, now, runVars, outcome, engineVars>>

\* the clock of CURRENT_TIMESTAMP moves on
Tick ==
    /\ Delivered
    /\ now < MaxTime
    /\ now' = now + 1
    /\ UNCHANGED <<dbFile, envVars, tableExists, store, runVars, outcome, response,
                   engineVars>>

\* The service beside the batch runner, the CSV files being those the
\* database was loaded from.
Next ==
    \/ \E tn \in TopNs : RunModelsBegin(tn, NoSeed)
    \/ \E model_name \in ModelNames : RunModelsStep(model_name, Catalogue)
    \/ RunModelsCommit
    \/ \E user_id \in OptionalIds, item_id \in OptionalIds, model \in ModelFilters,
          limit \in Limits : list_recommendations(user_id, item_id, model, limit)
    \/ Deliver
    \/ Tick

Spec == Init /\ [][Next]_vars

\* The batch runner alone, the CSV files changing between its steps.
RunnerNext ==
    \/ \E tn \in TopNs : RunModelsBegin(tn, NoSeed)
    \/ \E model_name \in ModelNames, data \in DataSets : RunModelsStep(model_name, data)
    \/ RunModelsCommit
    \/ Tick

RunnerSpec == Init /\ [][RunnerNext]_vars

\* ------------------------------------------------------------ properties
\* no two rows of the table share (target_key, model)
Unique(table) ==
    \A i, j \in 1..Len(table) :
        (table[i].target_key = table[j].target_key /\ table[i].model = table[j].model)
            => i = j

\* the step is a turn of the loop that persisted a mapping
Persisted == pc = "running" /\ pc' = "running" /\ Len(models') = Len(models) + 1

\* the step ends an invocation with an exception
Failed == pc = "running" /\ pc' = "idle" /\ outcome'.status # "ok"

\* the step serves a request of list_recommendations
Served == Delivered /\ response' # NoResponse

\* batch has a row for the pair of r
InBatch(b, r) ==
    \E k \in 1..Len(b) : b[k].target_key = r.target_key /\ b[k].model = r.model

\* C1: when an invocation of run_models fails, on the existence checks or on
\* any model of the loop, the committed rows are exactly those of before the
\* invocation, also when earlier models of the same call had been persisted.
C1_FailureCommitsNothing ==
    [][/\ Failed => store' = pre
       /\ (pc = "idle" /\ pc' = "idle") => store' = store]_vars

\* a failed invocation that had already persisted a model
C1_Witness ==
    /\ pc = "idle"
    /\ outcome.status \in {"UnknownModel", "MissingPrerequisite", "PersistenceError"}
    /\ outcome.wrote
    /\ store # <<>>

\* C2: the committed table never holds two rows for one (target_key, model);
\* a persisted row replaces the row of its pair with the new item list and
\* the timestamp of the write, and the committed table changes only by the
\* commit of the whole transaction.
C2_OneRowPerPairLatestWins ==
    [][/\ Unique(store')
       /\ Persisted =>
            \A k \in 1..Len(batch') :
                \E i \in 1..Len(tx') :
                    /\ tx'[i] = Row(batch'[k].target_key, batch'[k].model,
                                    batch'[k].items, now)
                    /\ Conflicts(tx', batch'[k].target_key, batch'[k].model) = {i}
       /\ store' # store => (pc = "running" /\ pc' = "idle" /\ store' = tx)]_vars

\* a committed row that was rewritten after a row inserted later than it
C2_Witness ==
    /\ pc = "idle"
    /\ outcome.status = "ok"
    /\ \E i, j \in 1..Len(store) :
          i < j /\ store[i].generated_at > store[j].generated_at

\* C3: persisting one model's mapping leaves every row whose
\* (target_key, model) is not in the mapping as it was: the rows of other
\* models for the same target keys and the rows of this model for target
\* keys the mapping does not have.
C3_PersistLeavesOtherRows ==
    [][Persisted =>
         \A i \in 1..Len(tx) :
             ~InBatch(batch', tx[i]) => (i <= Len(tx') /\ tx'[i] = tx[i])]_vars

\* after a persist, the table holds a row of another model for a persisted
\* target key and a row of the persisted model for a key not in the mapping
C3_Witness ==
    /\ pc = "running"
    /\ batch # <<>>
    /\ \E i \in 1..Len(tx) :
          /\ tx[i].model # batch[1].model
          /\ \E k \in 1..Len(batch) : batch[k].target_key = tx[i].target_key
    /\ \E j \in 1..Len(tx) :
          /\ tx[j].model = batch[1].model
          /\ ~InBatch(batch, tx[j])

\* C4: a retrieval served while an invocation of run_models is in progress
\* answers from the rows committed before the invocation, whatever the
\* invocation has written so far.
C4_ReadSeesNoPartialRun ==
    [][(Served /\ pc = "running") =>
         /\ store = pre
         /\ response'.status = 200 =>
               response' = FetchRecommendations(pre, tableExists, response'.target_key,
                                                response'.model, response'.limit)]_vars

\* a retrieval answered with a stored record while the running invocation
\* holds an uncommitted rewrite of a record of that target
C4_Witness ==
    /\ pc = "running"
    /\ response.status = 200
    /\ \E i \in 1..Len(tx) :
          /\ tx[i].target_key = response.target_key
          /\ \A j \in 1..Len(store) : store[j] # tx[i]

\* the requests that name both ids or none
Ambiguous(user_id, item_id) == Given(user_id) = Given(item_id)

\* C5: list_recommendations answers 400 InvalidRequest, with no
\* recommendations, when neither user_id nor item_id is given and when both
\* are given (stated for a built database that has its recommendations
\* table, where no other failure stands in the way).
C5_NeitherOrBothRejected ==
    [][(Served /\ dbFile = "built" /\ tableExists) =>
         \A user_id \in OptionalIds, item_id \in OptionalIds,
            model \in ModelFilters, limit \in Limits :
            (Ambiguous(user_id, item_id)
               /\ list_recommendations(user_id, item_id, model, limit))
               => (response'.status = 400 /\ response'.recommendations = <<>>)]_vars

\* C6: with the entity tables in place, in every reachable state (also before
\* any run_models), a request for an id that is in no entity table is answered
\* NotFound without the recommendations table being read, and a request for an
\* existing id with no stored row matching the filter is answered
\* NoRecommendations.
C6_NotFoundThenNoRecommendations ==
    [][(Served /\ dbFile = "built") =>
         \A user_id \in OptionalIds, item_id \in OptionalIds,
            model \in ModelFilters, limit \in Limits :
            (~Ambiguous(user_id, item_id)
               /\ list_recommendations(user_id, item_id, model, limit))
               => LET known == IF Given(user_id) THEN Val(user_id) \in DbUsers
                                                 ELSE Val(item_id) \in DbItems
                      target_key == IF Given(user_id)
                                    THEN TargetKey("user_id#", Val(user_id))
                                    ELSE TargetKey("item_id#", Val(item_id))
                      matching == {i \in 1..Len(store) :
                                     /\ store[i].target_key = target_key
                                     /\ (model = None \/ store[i].model = model)}
                  IN  /\ ~known => (response'.error = "NotFound" /\ ~response'.queried)
                      /\ (known /\ matching = {}) =>
                             response'.error = "NoRecommendations"]_vars

\* C7: an invocation rejected with UnknownModel has invoked no generation
\* function, wherever the unknown name stands in the list.
C7_UnknownModelBeforeAnyGeneration ==
    [][(Failed /\ outcome'.status = "UnknownModel") => genCalls = 0]_vars

\* C8: an invocation that fails with MissingPrerequisite (database file, data
\* directory or a CSV file of a requested model missing) has had no generation
\* function return a mapping and has written no row.
C8_MissingPrerequisiteBeforeAnyWork ==
    [][/\ \A tn \in TopNs :
            (RunModelsBegin(tn, NoSeed) /\ (dbFile = "absent" \/ ~dataDir)) =>
                /\ pc' = "idle"
                /\ outcome'.status = "MissingPrerequisite"
                /\ store' = store
       /\ (Failed /\ outcome'.status = "MissingPrerequisite") =>
             (genDone = 0 /\ ~wrote)]_vars

\* C8 (amended): when the database file or the data directory does not
\* exist, run_models fails with MissingPrerequisite in its opening checks:
\* the loop over the models is never entered, so no generation function is
\* invoked, and neither the connection nor the table nor any row is made.
C8_MissingDatabaseOrDirectoryFailsFirst ==
    [][\A tn \in TopNs :
          (RunModelsBegin(tn, NoSeed) /\ (dbFile = "absent" \/ ~dataDir)) =>
              /\ pc' = "idle"
              /\ outcome' = [status |-> "MissingPrerequisite", wrote |-> FALSE]
              /\ store' = store
              /\ dbFile' = dbFile
              /\ tableExists' = tableExists]_vars

\* an invocation turned away on a missing database file or data directory
C8_Witness ==
    /\ pc = "idle"
    /\ outcome.status = "MissingPrerequisite"
    /\ (dbFile = "absent" \/ ~dataDir)
    /\ ~tableExists
    /\ store = <<>>

\* C9: every entry of a 200 response carries the first min(limit, length)
\* items of the stored list of its (target_key, model) row, in stored order,
\* and serving a request changes no row.
C9_LimitTruncatesStoredList ==
    [][Served =>
         /\ store' = store
         /\ tx' = tx
         /\ response'.status = 200 =>
              \A k \in 1..Len(response'.recommendations) :
                 LET entry == response'.recommendations[k]
                     rows == Conflicts(store, response'.target_key, entry.model)
                 IN  /\ Cardinality(rows) = 1
                     /\ \A i \in rows :
                          LET stored == json_loads(store[i].items)
                          IN  /\ stored.ok
                              /\ entry.generated_at = store[i].generated_at
                              /\ entry.items =
                                   [n \in 1..Min(response'.limit, Len(stored.value))
                                      |-> stored.value[n]]]_vars

\* a response cut to fewer items than the record stores
C9_Witness ==
    /\ response.status = 200
    /\ \E k \in 1..Len(response.recommendations) :
          \E i \in Conflicts(store, response.target_key, response.recommendations[k].model) :
              /\ Len(response.recommendations[k].items) = response.limit
              /\ Len(json_loads(store[i].items).value) > response.limit

\* C10: with a model filter a 200 response has exactly one entry, of that
\* model; without a filter it has one entry per model that has a row for the
\* target, by ascending model name.
C10_OneEntryPerModelOrdered ==
    [][(Served /\ response'.status = 200) =>
         LET recs == response'.recommendations
             stored == {store[i].model : i \in {j \in 1..Len(store) :
                           store[j].target_key = response'.target_key}}
         IN  IF response'.model # None
             THEN Len(recs) = 1 /\ recs[1].model = response'.model
             ELSE /\ Len(recs) = Cardinality(stored)
                  /\ {recs[k].model : k \in 1..Len(recs)} = stored
                  /\ \A k, l \in 1..Len(recs) :
                        k < l => ModelRank(recs[k].model) < ModelRank(recs[l].model)]_vars

\* an unfiltered response for a target that has rows of both models
C10_Witness ==
    /\ response.status = 200
    /\ response.model = None
    /\ Len(response.recommendations) = 2
    /\ response.recommendations[1].model = "item_similarity"
    /\ response.recommendations[2].model = "random"

\* ------------------------------------------------ _top_n_similar on its own
\* an installation in which nothing has run, for the calls of one engine
EngineInstalled ==
    /\ dbFile = "built"
    /\ dataDir = TRUE
    /\ csv = CsvNames
    /\ Fresh
    /\ Idle

SimilarityInit ==
    /\ EngineInstalled
    /\ twister = <<>>
    /\ returned = <<>>
    /\ \E ids \in SimilarityPools, tn \in TopNs :
          \E m \in ScoreMatrices(Len(ids)) :
             args = [similarity_matrix |-> m, item_ids |-> ids, top_n |-> tn]

\* one call _top_n_similar(similarity_matrix, item_ids, top_n)
CallTopNSimilar ==
    /\ returned = <<>>
    /\ \E gen \in _top_n_similar(args.similarity_matrix, args.item_ids, args.top_n) :
          returned' = <<gen>>
    /\ UNCHANGED <<dbFile, envVars, tableExists, store, now, runVars, outcome,
                   response, args>>

SimilarityNext == CallTopNSimilar

SimilaritySpec == SimilarityInit /\ [][SimilarityNext]_vars

\* the list the call returned for the item at position idx
SimilarOf(idx) == returned[1].recs[idx].items

\* the position of item id c in the call's item_ids
PositionOf(c) == CHOOSE k \in 1..Len(args.item_ids) : args.item_ids[k] = c

\* C11: the list _top_n_similar returns for item i never contains i, is no
\* longer than top_n and no longer than the number of other items; for a
\* single item it is empty.
C11_SimilarListExcludesSelfAndIsBounded ==
    returned # <<>> =>
        \A idx \in 1..Len(args.item_ids) :
            /\ returned[1].recs[idx].target_key = TargetKey("item_id#", args.item_ids[idx])
            /\ \A k \in 1..Len(SimilarOf(idx)) : SimilarOf(idx)[k] # args.item_ids[idx]
            /\ Len(SimilarOf(idx)) <= args.top_n
            /\ Len(SimilarOf(idx)) <= Len(args.item_ids) - 1
            /\ Len(args.item_ids) = 1 => SimilarOf(idx) = <<>>

\* a call on three items whose own score is the largest of its row and
\* whose list was cut at top_n, short of the number of other items
C11_Witness ==
    /\ returned # <<>>
    /\ Len(args.item_ids) = 3
    /\ \E idx \in 1..3 :
          /\ \A j \in 1..3 : args.similarity_matrix[idx][idx] >= args.similarity_matrix[idx][j]
          /\ Len(SimilarOf(idx)) = args.top_n
          /\ args.top_n < 2

\* every row's diagonal entry is the largest of the row
DiagonalIsRowMax ==
    \A i, j \in 1..Len(args.item_ids) :
        args.similarity_matrix[i][i] >= args.similarity_matrix[i][j]

\* C18: when every diagonal entry is its row's maximum, the list for item i
\* is the true top-N of the others: min(top_n, n - 1) items, by
\* non-increasing score, none scoring less than an item left out.
C18_ShortlistKeepsTrueTopN ==
    (returned # <<>> /\ DiagonalIsRowMax) =>
        \A idx \in 1..Len(args.item_ids) :
            LET scores == args.similarity_matrix[idx]
                list == SimilarOf(idx)
                accepted == {PositionOf(list[k]) : k \in 1..Len(list)}
            IN  /\ Len(list) = Min(args.top_n, Len(args.item_ids) - 1)
                /\ \A k, l \in 1..Len(list) :
                      k < l => scores[PositionOf(list[k])] >= scores[PositionOf(list[l])]
                /\ \A a \in accepted, o \in 1..Len(args.item_ids) :
                      (o # idx /\ o \notin accepted) => scores[a] >= scores[o]

\* a call where the shortlist was a proper part of a row in which another
\* item ties with the diagonal, and a lower scoring item was left out
C18_Witness ==
    /\ returned # <<>>
    /\ DiagonalIsRowMax
    /\ Len(args.item_ids) = 3
    /\ args.top_n = 1
    /\ \E idx \in 1..3 :
          \E o \in 1..3 :
             /\ o # idx
             /\ args.item_ids[o] # SimilarOf(idx)[1]
             /\ args.similarity_matrix[idx][o] < args.similarity_matrix[idx][idx]
             /\ args.similarity_matrix[idx][PositionOf(SimilarOf(idx)[1])]
                   = args.similarity_matrix[idx][idx]

\* ------------------------------------ generate_random_recommendations on its own
RandomInit ==
    /\ EngineInstalled
    /\ returned = <<>>
    /\ \E sd \in {NoSeed} \cup Seeds, users \in RandomUserPools, items \in RandomItemPools,
          tn \in TopNs :
          /\ args = [seed |-> sd, user_ids |-> users, item_ids |-> items, top_n |-> tn]
          /\ twister \in (IF sd = NoSeed THEN {<<>>} ELSE Streams)

\* one call generate_random_recommendations(top_n, seed, data_dir); the
\* engine is called twice on the same arguments
CallGenerateRandom ==
    /\ Len(returned) < 2
    /\ \E gen \in generate_random_recommendations(
                     args.top_n, args.seed, twister, dataDir, csv,
                     [user_ids |-> args.user_ids, item_ids |-> args.item_ids]) :
          returned' = Append(returned, gen)
    /\ UNCHANGED <<dbFile, envVars, tableExists, store, now, runVars, outcome,
                   response, args>>

RandomNext == CallGenerateRandom

RandomSpec == RandomInit /\ [][RandomNext]_vars

\* the elements of a sequence
Range(q) == {q[i] : i \in 1..Len(q)}

\* no element of the sequence comes twice
NoRepeat(q) == \A i, j \in 1..Len(q) : q[i] = q[j] => i = j

\* C12: every user of user_ids gets a list of exactly min(top_n, |item_ids|)
\* items of the pool, none twice.
C12_UserListIsSampleOfPool ==
    \A r \in 1..Len(returned) :
        /\ returned[r].ok
        /\ \A i \in 1..Len(args.user_ids) :
              LET entry == returned[r].recs[i]
              IN  /\ entry.target_key = TargetKey("user_id#", args.user_ids[i])
                  /\ Len(entry.items) = Min(args.top_n, Len(args.item_ids))
                  /\ Range(entry.items) \subseteq Range(args.item_ids)
                  /\ NoRepeat(entry.items)

\* a user list capped by the pool, and one cut at top_n
C12_Witness ==
    /\ Len(returned) = 2
    /\ Len(args.user_ids) = 2
    /\ \/ args.top_n > Len(args.item_ids) /\ Len(args.item_ids) > 1
       \/ args.top_n < Len(args.item_ids) /\ returned[1].recs[2].items # returned[2].recs[2].items

\* C13: every item of item_ids gets a list of exactly
\* min(top_n, |item_ids| - 1) items of the pool, none twice and never the
\* item itself; with a single item in the pool the list is empty.
C13_ItemListIsSampleOfOthers ==
    \A r \in 1..Len(returned) :
        \A i \in 1..Len(args.item_ids) :
            LET entry == returned[r].recs[Len(args.user_ids) + i]
            IN  /\ entry.target_key = TargetKey("item_id#", args.item_ids[i])
                /\ Len(entry.items) = Min(args.top_n, Len(args.item_ids) - 1)
                /\ Range(entry.items) \subseteq Range(args.item_ids) \ {args.item_ids[i]}
                /\ NoRepeat(entry.items)
                /\ Len(args.item_ids) = 1 => entry.items = <<>>

\* an item list cut at top_n, short of the other items of the pool
C13_Witness ==
    /\ returned # <<>>
    /\ Len(args.item_ids) = 3
    /\ args.top_n = 1
    /\ Len(returned[1].recs[Len(args.user_ids) + 1].items) = 1

ArchiveNext ==
    \/ \E tn \in TopNs : RunModelsBegin(tn, NoSeed)
    \/ \E model_name \in ModelNames, data \in DataSets : RunModelsStep(model_name, data)
    \/ RunModelsCommit
    \/ \E id \in DbItems : list_recommendations(<<>>, <<id>>, None, MaxLimit)
    \/ Deliver
    \/ Tick

ArchiveSpec == Init /\ [][ArchiveNext]_vars

\* table after has, at the same rowid, a row for the pair of every row of
\* table before
KeepsPairs(before, after) ==
    \A i \in 1..Len(before) :
        /\ i <= Len(after)
        /\ after[i].target_key = before[i].target_key
        /\ after[i].model = before[i].model

\* C15: no step of run_models or of a retrieval removes a record: every
\* committed (target_key, model) pair stays committed, inside a transaction
\* every pair stays too, a record whose pair is not in the mapping being
\* persisted keeps its item list and timestamp, a commit changes no record
\* of a model the invocation did not run, and a retrieval changes nothing.
C15_RecordsAreNeverDeleted ==
    [][/\ KeepsPairs(store, store')
       /\ (pc = "running" /\ pc' = "running") => KeepsPairs(tx, tx')
       /\ Persisted =>
             \A i \in 1..Len(tx) : ~InBatch(batch', tx[i]) => tx'[i] = tx[i]
       /\ (pc = "running" /\ pc' = "idle") =>
             \A i \in 1..Len(store) :
                 (\A k \in 1..Len(models) : models[k] # store[i].model) =>
                     store'[i] = store[i]
       /\ Served => store' = store]_vars

\* the record of item 2 is served after a later committed generation of
\* the same model that no longer had item 2 in its pool
C15_Witness ==
    /\ pc = "idle"
    /\ response.status = 200
    /\ response.target_key = TargetKey("item_id#", 2)
    /\ \E i, j \in 1..Len(store) :
          /\ store[i].target_key = TargetKey("item_id#", 2)
          /\ store[j].target_key = TargetKey("item_id#", 1)
          /\ store[i].model = store[j].model
          /\ store[i].generated_at < store[j].generated_at
          /\ \E k \in 1..Len(response.recommendations) :
                /\ response.recommendations[k].model = store[i].model
                /\ response.recommendations[k].generated_at = store[i].generated_at

\* --------------------------------------------- retrieval from a damaged table
\* item texts a row may hold: written by _serialize_items, cut short, or
\* replaced by a JSON string
StoredTexts ==
    {_serialize_items(<<2, 1>>),
     _serialize_items(<<>>),
     <<Punct("["), Num(2), Punct(",")>>,
     <<Punct("quote"), Chr(2), Chr(1), Punct("quote")>>}

\* the recommendations table as a fault or another writer may have left
\* it: the records of item 1, of one model or of both
StoredTables ==
    {<<Row(TargetKey("item_id#", 1), "random", t, 0)>> : t \in StoredTexts}
    \cup {<<Row(TargetKey("item_id#", 1), "random", t, 0),
            Row(TargetKey("item_id#", 1), "item_similarity", u, 0)>> :
              t \in StoredTexts, u \in StoredTexts}

ReaderInit ==
    /\ dbFile = "built"
    /\ dataDir = TRUE
    /\ csv = CsvNames
    /\ twister = <<>>
    /\ tableExists = TRUE
    /\ store \in StoredTables
    /\ Idle
    /\ NoEngineCall

ReaderNext ==
    \/ \E user_id \in OptionalIds, item_id \in OptionalIds, model \in ModelFilters,
          limit \in Limits : list_recommendations(user_id, item_id, model, limit)
    \/ Deliver

ReaderSpec == ReaderInit /\ [][ReaderNext]_vars

\* the text parses back into a list of candidates
IsItemList(text) == json_loads(text).ok /\ json_loads(text).type = "list"

\* C16: a request that matches a record whose stored text does not parse
\* back into a list of candidates is answered 500 CorruptedStorage with no
\* recommendations at all, and the table is left as it was.
C16_UnparsableRecordIsCorruptedStorage ==
    [][Served =>
         /\ store' = store
         /\ \A item_id \in OptionalIds, model \in ModelFilters, limit \in Limits :
               (/\ Given(item_id)
                /\ list_recommendations(<<>>, item_id, model, limit)
                /\ Val(item_id) \in DbItems
                /\ \E i \in 1..Len(store) :
                      /\ store[i].target_key = TargetKey("item_id#", Val(item_id))
                      /\ model = None \/ store[i].model = model
                      /\ ~IsItemList(store[i].items))
               => /\ response'.status = 500
                  /\ response'.error = "CorruptedStorage"
                  /\ response'.recommendations = <<>>]_vars

\* ------------------------------------------------- re-runs with a given seed
\* users.csv and items.csv of the seeded runs: user 2 was added to the
\* file, ahead of user 1, after the database was built
SeededPools == [user_ids |-> <<2, 1>>, item_ids |-> <<1, 2>>]

SeededInit ==
    /\ EngineInstalled
    /\ NoEngineCall
    /\ twister \in Streams

\* run_models(["random", ...], top_n, seed) again and again with one seed
\* over the same files, beside clients asking for user 1
SeededNext ==
    \/ \E tn \in TopNs, sd \in Seeds : RunModelsBegin(tn, sd)
    \/ RunModelsStep("random", SeededPools)
    \/ RunModelsCommit
    \/ \E id \in DbUsers, limit \in Limits :
          list_recommendations(<<id>>, <<>>, "random", limit)
    \/ Deliver
    \/ Tick

SeededSpec == SeededInit /\ [][SeededNext]_vars

\* the step commits an invocation that ran the random model
RandomRerun ==
    /\ pc = "running"
    /\ pc' = "idle"
    /\ outcome'.status = "ok"
    /\ \E k \in 1..Len(models) : models[k] = "random"

\* what a client asking for target_key, model random, gets from table
RandomView(table, target_key, limit) ==
    FetchRecommendations(table, TRUE, target_key, "random", limit)

\* C17 as claimed: for a stored record of the random model longer than the
\* limit, a retrieval returns its first limit items, and returns the same
\* items after run_models has been re-run for the model with any top_n,
\* the seed and the source data being the same.
C17_LimitedViewSurvivesAnyRerun ==
    [][RandomRerun =>
         \A i \in 1..Len(store), limit \in Limits :
            (store[i].model = "random" /\ Len(json_loads(store[i].items).value) > limit)
               => LET before == RandomView(store, store[i].target_key, limit)
                      after == RandomView(store', store[i].target_key, limit)
                  IN  /\ before.status = 200
                      /\ before.recommendations[1].items =
                             Prefix(json_loads(store[i].items).value, limit)
                      /\ after.status = 200
                      /\ after.recommendations[1].items =
                             before.recommendations[1].items]_vars

\* C17 (amended): the same, for a re-run with the same top_n.  The first
\* row of the table is the record of the first user of users.csv, which has
\* min(top_n, |item_ids|) items: the records were generated with the top_n
\* of the re-run when that is its length.
C17_LimitedViewSurvivesSameRerun ==
    [][RandomRerun =>
         \A i \in 1..Len(store), limit \in Limits :
            (/\ store[i].model = "random"
             /\ Len(json_loads(store[i].items).value) > limit
             /\ store[1].model = "random"
             /\ Len(json_loads(store[1].items).value)
                   = Min(top_n, Len(SeededPools.item_ids)))
               => LET before == RandomView(store, store[i].target_key, limit)
                      after == RandomView(store', store[i].target_key, limit)
                  IN  /\ before.status = 200
                      /\ before.recommendations[1].items =
                             Prefix(json_loads(store[i].items).value, limit)
                      /\ after.status = 200
                      /\ after.recommendations[1].items =
                             before.recommendations[1].items]_vars

\* user 1 is served the first item of its two-item record while a re-run
\* with the same top_n, about to commit, has written the record again
C17_Witness ==
    /\ pc = "running"
    /\ top_n = 2
    /\ models = <<"random">>
    /\ response.status = 200
    /\ response.limit = 1
    /\ response.target_key = TargetKey("user_id#", 1)
    /\ \E i \in 1..Len(store) :
          /\ store[i].target_key = response.target_key
          /\ Len(json_loads(store[i].items).value) = 2
          /\ tx[i].generated_at > store[i].generated_at
          /\ tx[i].items = store[i].items
          /\ response.recommendations[1].items
                = Prefix(json_loads(store[i].items).value, 1)

====
